---- MODULE Spec2Model ----
(***************************************************************************)
(* A model of liblaunchpad.h: one LP session object, the ALSA raw-MIDI     *)
(* transport it drives, and the Launchpad S at the other end of the wire.  *)
(* Every library function is one action; the transport's results are the   *)
(* action's nondeterministic inputs.                                        *)
(***************************************************************************)
EXTENDS Integers, Sequences, FiniteSets, TLC

VARIABLES
  midi_in,       \* LP.midi_in : what the pointer refers to
  midi_out,      \* LP.midi_out: what the pointer refers to
  current_buff,  \* LP.current_buff
  nonblocking,   \* the mode the transport was last opened with
  opened,        \* ghost: a successful lp_open not yet followed by lp_close
  dev_display,   \* the buffer the Launchpad displays
  inq,           \* bytes the Launchpad has sent that no read has consumed
  event,         \* the caller's LPEvent object
  last           \* the last library call: entry state, transport calls, result

vars == <<midi_in, midi_out, current_buff, nonblocking, opened,
          dev_display, inq, event, last>>

(***************************** bounds **************************************)
\* values an uninitialised int field may hold besides 0 and 1: -1 .. MaxIndet
MaxIndet == 2
\* whole input messages the transport buffers before the device stops sending
MaxInMsgs == 2

(************************** program constants ******************************)
LP_OK                       == 0
LP_ERROR_LP_NULL            == -1
LP_ERROR_OPENING_LAUNCHPAD  == -2
LP_ERROR_UNINITIALIZED      == -3
LP_ERROR_MIDI_WRITE         == -4
LP_ERROR_MIDI_DRAIN         == -5
LP_ERROR_MIDI_CLOSE         == -6
LP_ERROR_ARGUMENT_NULL      == -7
LP_ERROR_MIDI_READ          == -8

LP_ROWS == 8
LP_COLS == 8

LP_NOTE_ON  == 144
LP_NOTE_OFF == 128

LP_COLOR_FLAG_CLEAR == 4
LP_COLOR_FLAG_COPY  == 8

LP_BRIGHTNESS_OFF  == 0
LP_BRIGHTNESS_FULL == 3

LP_DOUBLE_BUFFERING_DISPLAY_0 == 0
LP_DOUBLE_BUFFERING_DISPLAY_1 == 1
LP_DOUBLE_BUFFERING_UPDATE_0  == 0
LP_DOUBLE_BUFFERING_UPDATE_1  == 4
LP_DOUBLE_BUFFERING_FLASH     == 8
LP_DOUBLE_BUFFERING_COPY      == 16

LP_EVENT_PRESSED          == 1
LP_EVENT_RELEASED         == 2
LP_EVENT_AUTOMAP_PRESSED  == 3
LP_EVENT_AUTOMAP_RELEASED == 4

\* errno values the transport returns negated
EAGAIN == 11
EIO    == 5

(***************************** arithmetic **********************************)
\* conversion to unsigned char
UChar(n) == n % 256

\* conversion of the transport's ssize_t result to size_t.  The build's
\* modulus is 2^64; any modulus above every length and errno used here
\* orders the values the same way, and 2^30 fits the checker's integers.
SizeT(n) == n % 1073741824

RECURSIVE BitOr(_, _)
BitOr(a, b) ==
  IF a = 0 THEN b
  ELSE IF b = 0 THEN a
  ELSE (IF a % 2 = 1 \/ b % 2 = 1 THEN 1 ELSE 0) + 2 * BitOr(a \div 2, b \div 2)

Bit(n, k) == (n \div (2 ^ k)) % 2

\* LP_KEY with a slip: the factor applied to the sum
LP_KEY_scaled_sum(row, col) == 16 * (row + col)

LP_KEY(row, col) == (16 * row) + col

\* LP_COLOR with a slip: red shifted by 2 bits, into the place of the flags
LP_COLOR_red_times_4(green, red, flags) == (16 * green) + (4 * red) + flags

\* LP_COLOR with a slip: green shifted by 3 bits instead of 4
LP_COLOR_green_times_8(green, red, flags) == (8 * green) + red + flags

LP_COLOR(green, red, flags) == (16 * green) + red + flags
LP_COLOR_RED_FULL   == LP_COLOR(LP_BRIGHTNESS_OFF, LP_BRIGHTNESS_FULL, 0)
LP_COLOR_GREEN_FULL == LP_COLOR(LP_BRIGHTNESS_FULL, LP_BRIGHTNESS_OFF, 0)
LP_NOTE(state, key, color) == [state |-> state, key |-> key, color |-> color]

(****************************** inputs *************************************)
\* what a handle field refers to: NULL, an indeterminate non-null value, an
\* open rawmidi stream, or a stream snd_rawmidi_close has already freed
Handles == {"null", "wild", "live", "freed"}

\* values of a field of an LP object nobody has initialised (LP lp;)
IndetHandles == {"null", "wild"}
IndetInts    == -1 .. MaxIndet

\* results of the transport calls
WriteResults(len) == {-EIO} \cup {n \in {0, 1, len - 1, len} : n >= 0 /\ n <= len}
DrainResults == {0, -EIO}
CloseResults == {0, -EIO}
OpenResults  == {0, -2}

\* messages the Launchpad sends: a grid press, an automap release
InMsgs == { <<144, LP_KEY(1, 2), 127>>, <<176, 105, 0>> }

\* the notes and grids the caller passes
NoteArgs == { LP_NOTE(LP_NOTE_ON, LP_KEY(0, 0), LP_COLOR_RED_FULL),
              LP_NOTE(LP_NOTE_OFF, LP_KEY(0, 0), 0) }
GridOf(state, color) ==
  [n \in 0 .. (LP_ROWS * LP_COLS - 1) |->
     LP_NOTE(state, LP_KEY(n \div LP_ROWS, n % LP_ROWS), color)]
GridArgs == { GridOf(LP_NOTE_ON, LP_COLOR_GREEN_FULL) }

\* flags the caller passes to lp_set_double_buffering_flags
FlagArgs ==
  { BitOr(BitOr(LP_DOUBLE_BUFFERING_DISPLAY_1, LP_DOUBLE_BUFFERING_UPDATE_0),
          LP_DOUBLE_BUFFERING_COPY),
    BitOr(BitOr(LP_DOUBLE_BUFFERING_DISPLAY_0, LP_DOUBLE_BUFFERING_UPDATE_1),
          LP_DOUBLE_BUFFERING_COPY),
    BitOr(LP_DOUBLE_BUFFERING_DISPLAY_1, LP_DOUBLE_BUFFERING_FLASH) }

NoEvent == [type |-> 0, note_x |-> 0, note_y |-> 0]

(************************** the device *************************************)
\* The buffer displayed after the device received msg: [0xB0,0,0] resets to
\* buffer 0, [0xB0,0,0x20+flags] displays the buffer named by bit 0 of flags.
DeviceDisplay(cur, msg) ==
  IF Len(msg) = 3 /\ msg[1] = 176 /\ msg[2] = 0
  THEN IF msg[3] = 0 THEN 0
       ELSE IF msg[3] >= 32 /\ msg[3] <= 61 THEN Bit(msg[3] - 32, 0)
       ELSE cur
  ELSE cur

\* Only a write the transport took whole, on an open stream, reaches the
\* device as a message; a fragment changes nothing it displays.
Delivered(h, msg, w) ==
  IF h = "live" /\ w = Len(msg) THEN DeviceDisplay(dev_display, msg) ELSE dev_display

(************************** bookkeeping ************************************)
Call(fn, dir, h, data, res) ==
  [fn |-> fn, dir |-> dir, h |-> h, data |-> data, res |-> res]

Log(op, lp, ret, calls) ==
  [op |-> op, lp |-> lp, ret |-> ret, calls |-> calls,
   cb0 |-> current_buff, opened0 |-> opened, hasEvent |-> TRUE, arg |-> <<>>]

Init ==
  /\ midi_in \in IndetHandles
  /\ midi_out \in IndetHandles
  /\ current_buff \in IndetInts
  /\ nonblocking = FALSE
  /\ opened = FALSE
  /\ dev_display = 0
  /\ inq = <<>>
  /\ event = NoEvent
  /\ last = [op |-> "none", lp |-> TRUE, ret |-> LP_OK, calls |-> <<>>,
             cb0 |-> current_buff, opened0 |-> FALSE, hasEvent |-> TRUE,
             arg |-> <<>>]

(************************** the library ************************************)
\* write_drain with a slip: only a transport error fails the write, a short
\* count is taken for success
write_drain_short_ok(msg, w, d) ==
  LET wr == Call("write", "out", midi_out, msg, w)
      dr == Call("drain", "out", midi_out, <<>>, d)
  IN IF w < 0
     THEN [ret |-> LP_ERROR_MIDI_WRITE, calls |-> <<wr>>]
     ELSE IF d < 0
          THEN [ret |-> LP_ERROR_MIDI_DRAIN, calls |-> <<wr, dr>>]
          ELSE [ret |-> LP_OK, calls |-> <<wr, dr>>]

\* write_drain with a slip: the function returns after the write, the drain
\* left out
write_drain_no_drain(msg, w, d) ==
  LET bytes == SizeT(w)
      wr    == Call("write", "out", midi_out, msg, w)
  IN IF bytes # Len(msg)
     THEN [ret |-> LP_ERROR_MIDI_WRITE, calls |-> <<wr>>]
     ELSE [ret |-> LP_OK, calls |-> <<wr>>]

\* snd_rawmidi_write of msg followed, when the whole of it was taken, by
\* snd_rawmidi_drain: the tail every writing function ends with
write_drain(msg, w, d) ==
  LET bytes == SizeT(w)
      wr    == Call("write", "out", midi_out, msg, w)
      dr    == Call("drain", "out", midi_out, <<>>, d)
  IN IF bytes # Len(msg)
     THEN [ret |-> LP_ERROR_MIDI_WRITE, calls |-> <<wr>>]
     ELSE IF d < 0
          THEN [ret |-> LP_ERROR_MIDI_DRAIN, calls |-> <<wr, dr>>]
          ELSE [ret |-> LP_OK, calls |-> <<wr, dr>>]

\* the drain results to consider after the write result w
DrainAfter(msg, w) == IF SizeT(w) = Len(msg) THEN DrainResults ELSE {0}

\* a writing function called with arg that reached its write: msg goes out,
\* nothing in LP changes
WritesArg(op, lp, arg, msg) ==
  \E w \in WriteResults(Len(msg)) : \E d \in DrainAfter(msg, w) :
    /\ last' = [Log(op, lp, write_drain(msg, w, d).ret, write_drain(msg, w, d).calls)
                EXCEPT !.arg = arg]
    /\ dev_display' = Delivered(midi_out, msg, w)
    /\ UNCHANGED <<midi_in, midi_out, current_buff, nonblocking, opened, inq, event>>

\* the same for a function without an argument
Writes(op, lp, msg) == WritesArg(op, lp, <<>>, msg)

\* an early return: no transport call, nothing changes
Returns(op, lp, ret) ==
  /\ last' = Log(op, lp, ret, <<>>)
  /\ UNCHANGED <<midi_in, midi_out, current_buff, nonblocking, opened,
                 dev_display, inq, event>>

lp_open(lp, nb) ==
  IF ~lp THEN Returns("open", lp, LP_ERROR_LP_NULL)
  ELSE \E r \in OpenResults :
  IF r < 0
  THEN \* the transport may or may not have stored NULL before failing
       \E clears \in BOOLEAN :
       /\ midi_in'  = IF clears THEN "null" ELSE midi_in
       /\ midi_out' = IF clears THEN "null" ELSE midi_out
       /\ opened' = IF clears THEN FALSE ELSE opened
       /\ last' = Log("open", lp, LP_ERROR_OPENING_LAUNCHPAD,
                      <<Call("open", "both", "null", <<>>, r)>>)
       /\ UNCHANGED <<current_buff, nonblocking, dev_display, inq, event>>
  ELSE /\ midi_in' = "live"
       /\ midi_out' = "live"
       /\ nonblocking' = nb
       /\ opened' = TRUE
       /\ inq' = <<>>
       /\ last' = Log("open", lp, LP_OK, <<Call("open", "both", "null", <<>>, r)>>)
       /\ UNCHANGED <<current_buff, dev_display, event>>

\* lp_reset with a slip: the session's buffer index is cleared along with the LEDs
lp_reset_clears_buffer(lp) ==
  IF ~lp THEN Returns("reset", lp, LP_ERROR_LP_NULL)
  ELSE IF midi_out = "null" THEN Returns("reset", lp, LP_ERROR_UNINITIALIZED)
  ELSE \E w \in WriteResults(3) : \E d \in DrainAfter(<<176, 0, 0>>, w) :
    /\ last' = Log("reset", lp, write_drain(<<176, 0, 0>>, w, d).ret,
                   write_drain(<<176, 0, 0>>, w, d).calls)
    /\ dev_display' = Delivered(midi_out, <<176, 0, 0>>, w)
    /\ current_buff' = 0
    /\ UNCHANGED <<midi_in, midi_out, nonblocking, opened, inq, event>>

lp_reset(lp) ==
  IF ~lp THEN Returns("reset", lp, LP_ERROR_LP_NULL)
  ELSE IF midi_out = "null" THEN Returns("reset", lp, LP_ERROR_UNINITIALIZED)
  ELSE Writes("reset", lp, <<176, 0, 0>>)

\* snd_rawmidi_close frees the stream whatever it returns
Released(h) == IF h = "live" THEN "freed" ELSE h

lp_close(lp) ==
  IF ~lp THEN Returns("close", lp, LP_OK)
  ELSE \E ci \in (IF midi_in = "null" THEN {0} ELSE CloseResults),
          co \in (IF midi_out = "null" THEN {0} ELSE CloseResults) :
       LET callIn  == midi_in # "null"
           failIn  == callIn /\ ci < 0
           callOut == ~failIn /\ midi_out # "null"
           failOut == callOut /\ co < 0
           cIn     == IF callIn THEN <<Call("close", "in", midi_in, <<>>, ci)>> ELSE <<>>
           cOut    == IF callOut THEN <<Call("close", "out", midi_out, <<>>, co)>> ELSE <<>>
       IN /\ midi_in'  = IF callIn THEN Released(midi_in) ELSE midi_in
          /\ midi_out' = IF callOut THEN Released(midi_out) ELSE midi_out
          /\ opened' = FALSE
          /\ inq' = IF callIn THEN <<>> ELSE inq
          /\ last' = Log("close", lp,
                         IF failIn \/ failOut THEN LP_ERROR_MIDI_CLOSE ELSE LP_OK,
                         cIn \o cOut)
          /\ UNCHANGED <<current_buff, nonblocking, dev_display, event>>

\* lp_set_note with a slip: color and key change places in msg_buff
lp_set_note_color_first(lp, note) ==
  IF ~lp THEN Returns("set_note", lp, LP_ERROR_LP_NULL)
  ELSE IF midi_out = "null" THEN Returns("set_note", lp, LP_ERROR_UNINITIALIZED)
  ELSE WritesArg("set_note", lp, <<note.state, note.key, note.color>>,
                 <<note.state, note.color, note.key>>)

lp_set_note(lp, note) ==
  IF ~lp THEN Returns("set_note", lp, LP_ERROR_LP_NULL)
  ELSE IF midi_out = "null" THEN Returns("set_note", lp, LP_ERROR_UNINITIALIZED)
  ELSE WritesArg("set_note", lp, <<note.state, note.key, note.color>>,
                 <<note.state, note.key, note.color>>)

\* the notes array as passed: entry n of the array at position n + 1
NotesArg(notes) ==
  [n \in 1 .. (LP_ROWS * LP_COLS) |->
     <<notes[n - 1].state, notes[n - 1].key, notes[n - 1].color>>]

\* GridBytes with a slip: the array is read column by column
GridBytes_transposed(notes) ==
  [k \in 1 .. (3 * LP_ROWS * LP_COLS) |->
     LET cell == (k - 1) \div 3
         i    == cell \div LP_COLS
         j    == cell % LP_COLS
         n    == notes[j * LP_ROWS + i]
     IN CASE (k - 1) % 3 = 0 -> n.state
          [] (k - 1) % 3 = 1 -> n.key
          [] OTHER           -> n.color]

\* msg_buff of lp_set_notes: cell (i,j) of notes at offset 3 * (i * LP_COLS + j)
GridBytes(notes) ==
  [k \in 1 .. (3 * LP_ROWS * LP_COLS) |->
     LET cell == (k - 1) \div 3
         i    == cell \div LP_COLS
         j    == cell % LP_COLS
         n    == notes[i * LP_ROWS + j]
     IN CASE (k - 1) % 3 = 0 -> n.state
          [] (k - 1) % 3 = 1 -> n.key
          [] OTHER           -> n.color]

lp_set_notes(lp, hasNotes, notes) ==
  IF ~lp THEN Returns("set_grid", lp, LP_ERROR_LP_NULL)
  ELSE IF midi_out = "null" THEN Returns("set_grid", lp, LP_ERROR_UNINITIALIZED)
  ELSE IF ~hasNotes THEN Returns("set_grid", lp, LP_ERROR_ARGUMENT_NULL)
  ELSE WritesArg("set_grid", lp, NotesArg(notes), GridBytes(notes))

\* lp_set_double_buffering_flags with a slip: the flags go out without the
\* 0x20 offset
lp_set_double_buffering_flags_raw(lp, flags) ==
  IF ~lp THEN Returns("set_buffer_flags", lp, LP_ERROR_LP_NULL)
  ELSE IF midi_out = "null" THEN Returns("set_buffer_flags", lp, LP_ERROR_UNINITIALIZED)
  ELSE WritesArg("set_buffer_flags", lp, <<flags>>, <<176, 0, UChar(flags)>>)

lp_set_double_buffering_flags(lp, flags) ==
  IF ~lp THEN Returns("set_buffer_flags", lp, LP_ERROR_LP_NULL)
  ELSE IF midi_out = "null" THEN Returns("set_buffer_flags", lp, LP_ERROR_UNINITIALIZED)
  ELSE WritesArg("set_buffer_flags", lp, <<flags>>, <<176, 0, UChar(flags + 32)>>)

lp_swap_buffers(lp) ==
  IF ~lp THEN Returns("swap_buffers", lp, LP_ERROR_LP_NULL)
  ELSE IF midi_out = "null" THEN Returns("swap_buffers", lp, LP_ERROR_UNINITIALIZED)
  ELSE LET flags == IF current_buff = 0
                    THEN BitOr(BitOr(LP_DOUBLE_BUFFERING_DISPLAY_1,
                                     LP_DOUBLE_BUFFERING_UPDATE_0),
                               LP_DOUBLE_BUFFERING_COPY)
                    ELSE BitOr(BitOr(LP_DOUBLE_BUFFERING_DISPLAY_0,
                                     LP_DOUBLE_BUFFERING_UPDATE_1),
                               LP_DOUBLE_BUFFERING_COPY)
           msg   == <<176, 0, UChar(flags + 32)>>
       IN \E w \in WriteResults(3) : \E d \in DrainAfter(msg, w) :
          /\ current_buff' = IF current_buff = 0 THEN 1 ELSE 0
          /\ last' = Log("swap_buffers", lp, write_drain(msg, w, d).ret,
                         write_drain(msg, w, d).calls)
          /\ dev_display' = Delivered(midi_out, msg, w)
          /\ UNCHANGED <<midi_in, midi_out, nonblocking, opened, inq, event>>

\* what snd_rawmidi_read(midi_in, event_buff, 3) may do: <<result, bytes read>>.
\* With nothing to read a non-blocking stream reports -EAGAIN, or a count of
\* 0; a blocking one waits for the device, or fails.
ReadOutcomes ==
  IF midi_in = "live"
  THEN {<<-EIO, <<>>>>}
       \cup (IF inq = <<>> /\ nonblocking THEN {<<-EAGAIN, <<>>>>, <<0, <<>>>>} ELSE {})
       \cup {<<n, SubSeq(inq, 1, n)>> : n \in {k \in 1 .. 3 : k <= Len(inq)}}
  ELSE {<<-EIO, <<>>>>, <<-EAGAIN, <<>>>>} \cup {<<3, m>> : m \in InMsgs}

\* decode with a slip: the column is note % 9, the row multiple not taken off
decode_note_mod_9(ev, hasEvent, event_buff) ==
  LET status   == event_buff[1]
      note     == event_buff[2]
      velocity == event_buff[3]
  IN IF hasEvent /\ status = 144
     THEN [type   |-> IF velocity > 0 THEN LP_EVENT_PRESSED ELSE LP_EVENT_RELEASED,
           note_x |-> UChar(note % 9),
           note_y |-> UChar(note \div 16)]
     ELSE IF hasEvent /\ status = 176
     THEN [type   |-> IF velocity > 0 THEN LP_EVENT_AUTOMAP_PRESSED
                      ELSE LP_EVENT_AUTOMAP_RELEASED,
           note_x |-> UChar(note - 104),
           note_y |-> 0]
     ELSE ev

\* the LPEvent lp_check_event leaves behind after reading event_buff whole
decode(ev, hasEvent, event_buff) ==
  LET status   == event_buff[1]
      note     == event_buff[2]
      velocity == event_buff[3]
  IN IF hasEvent /\ status = 144
     THEN [type   |-> IF velocity > 0 THEN LP_EVENT_PRESSED ELSE LP_EVENT_RELEASED,
           note_x |-> UChar((note - (note \div 16) * 16) % 9),
           note_y |-> UChar(note \div 16)]
     ELSE IF hasEvent /\ status = 176
     THEN [type   |-> IF velocity > 0 THEN LP_EVENT_AUTOMAP_PRESSED
                      ELSE LP_EVENT_AUTOMAP_RELEASED,
           note_x |-> UChar(note - 104),
           note_y |-> 0]
     ELSE ev

\* check_event_ret with a slip: a read of fewer than 3 bytes is taken for a
\* failed read
check_event_ret_short_fails(err) ==
  IF err = -EAGAIN THEN 0
  ELSE IF err < 3 THEN LP_ERROR_MIDI_READ
  ELSE 1

\* the value lp_check_event returns for the read result err
check_event_ret(err) ==
  IF err = -EAGAIN THEN 0
  ELSE IF err < 0 THEN LP_ERROR_MIDI_READ
  ELSE IF err = 3 THEN 1
  ELSE 0

lp_check_event(lp, hasEvent) ==
  IF ~lp THEN Returns("check_event", lp, LP_ERROR_LP_NULL)
  ELSE IF midi_in = "null" THEN Returns("check_event", lp, LP_ERROR_UNINITIALIZED)
  ELSE \E rd \in ReadOutcomes :
       LET err  == rd[1]
           data == rd[2]
       IN /\ inq' = IF midi_in = "live" /\ err > 0
                    THEN SubSeq(inq, err + 1, Len(inq)) ELSE inq
          /\ event' = IF err = 3 THEN decode(event, hasEvent, data) ELSE event
          /\ last' = [Log("check_event", lp, check_event_ret(err),
                          <<Call("read", "in", midi_in, data, err)>>)
                        EXCEPT !.hasEvent = hasEvent]
          /\ UNCHANGED <<midi_in, midi_out, current_buff, nonblocking, opened,
                         dev_display>>

lp_enable_flashing(lp) ==
  IF ~lp THEN Returns("enable_flashing", lp, LP_ERROR_LP_NULL)
  ELSE IF midi_out = "null" THEN Returns("enable_flashing", lp, LP_ERROR_UNINITIALIZED)
  ELSE Writes("enable_flashing", lp, <<176, 0, 40>>)

lp_disable_flashing(lp) ==
  IF ~lp THEN Returns("disable_flashing", lp, LP_ERROR_LP_NULL)
  ELSE IF midi_out = "null" THEN Returns("disable_flashing", lp, LP_ERROR_UNINITIALIZED)
  ELSE Writes("disable_flashing", lp, <<176, 0, 33>>)

\* the Launchpad sends one input message while the input stream is open
DeviceSend(m) ==
  /\ midi_in = "live"
  /\ Len(inq) + 3 <= 3 * MaxInMsgs
  /\ inq' = inq \o m
  /\ UNCHANGED <<midi_in, midi_out, current_buff, nonblocking, opened,
                 dev_display, event, last>>

Next ==
  \/ \E lp \in BOOLEAN, nb \in BOOLEAN : lp_open(lp, nb)
  \/ \E lp \in BOOLEAN : lp_reset(lp)
  \/ \E lp \in BOOLEAN : lp_close(lp)
  \/ \E lp \in BOOLEAN, note \in NoteArgs : lp_set_note(lp, note)
  \/ \E lp \in BOOLEAN, hasNotes \in BOOLEAN, notes \in GridArgs :
       lp_set_notes(lp, hasNotes, notes)
  \/ \E lp \in BOOLEAN, flags \in FlagArgs : lp_set_double_buffering_flags(lp, flags)
  \/ \E lp \in BOOLEAN : lp_swap_buffers(lp)
  \/ \E lp \in BOOLEAN, hasEvent \in BOOLEAN : lp_check_event(lp, hasEvent)
  \/ \E lp \in BOOLEAN : lp_enable_flashing(lp)
  \/ \E lp \in BOOLEAN : lp_disable_flashing(lp)
  \/ \E m \in InMsgs : DeviceSend(m)

Spec == Init /\ [][Next]_vars

\* a session object in static storage, or one the caller cleared (LP lp = {0})
InitZeroed ==
  /\ midi_in = "null"
  /\ midi_out = "null"
  /\ current_buff = 0
  /\ nonblocking = FALSE
  /\ opened = FALSE
  /\ dev_display = 0
  /\ inq = <<>>
  /\ event = NoEvent
  /\ last = [op |-> "none", lp |-> TRUE, ret |-> LP_OK, calls |-> <<>>,
             cb0 |-> 0, opened0 |-> FALSE, hasEvent |-> TRUE, arg |-> <<>>]

SpecZeroed == InitZeroed /\ [][Next]_vars

\* the caller never uses lp_set_double_buffering_flags directly
NextNoFlags ==
  \/ \E lp \in BOOLEAN, nb \in BOOLEAN : lp_open(lp, nb)
  \/ \E lp \in BOOLEAN : lp_reset(lp)
  \/ \E lp \in BOOLEAN : lp_close(lp)
  \/ \E lp \in BOOLEAN, note \in NoteArgs : lp_set_note(lp, note)
  \/ \E lp \in BOOLEAN, hasNotes \in BOOLEAN, notes \in GridArgs :
       lp_set_notes(lp, hasNotes, notes)
  \/ \E lp \in BOOLEAN : lp_swap_buffers(lp)
  \/ \E lp \in BOOLEAN, hasEvent \in BOOLEAN : lp_check_event(lp, hasEvent)
  \/ \E lp \in BOOLEAN : lp_enable_flashing(lp)
  \/ \E lp \in BOOLEAN : lp_disable_flashing(lp)
  \/ \E m \in InMsgs : DeviceSend(m)

SpecNoFlags == InitZeroed /\ [][NextNoFlags]_vars

\* every message the Launchpad S sends: the keys of the 8 rows of 9 buttons
\* and the 8 Automap buttons, pressed (velocity 127) or released (0)
DeviceMsgs ==
  {<<144, LP_KEY(row, col), v>> : row \in 0 .. 7, col \in 0 .. 8, v \in {0, 127}}
  \cup {<<176, 104 + a, v>> : a \in 0 .. 7, v \in {0, 127}}

\* an opened session, blocking or not, with one message of the device waiting
InitInput ==
  /\ midi_in = "live"
  /\ midi_out = "live"
  /\ current_buff = 0
  /\ nonblocking \in BOOLEAN
  /\ opened = TRUE
  /\ dev_display = 0
  /\ inq \in DeviceMsgs
  /\ event = NoEvent
  /\ last = [op |-> "open", lp |-> TRUE, ret |-> LP_OK,
             calls |-> <<Call("open", "both", "null", <<>>, 0)>>,
             cb0 |-> 0, opened0 |-> FALSE, hasEvent |-> TRUE, arg |-> <<>>]

NextInput == \E hasEvent \in BOOLEAN : lp_check_event(TRUE, hasEvent)

SpecInput == InitInput /\ [][NextInput]_vars

\* the caller builds a key with LP_KEY from a row and a column of the grid
Eval_LP_KEY(row, col) ==
  /\ last' = [Log("LP_KEY", TRUE, LP_KEY(row, col), <<>>) EXCEPT !.arg = <<row, col>>]
  /\ UNCHANGED <<midi_in, midi_out, current_buff, nonblocking, opened,
                 dev_display, inq, event>>

\* the combinations of the color flags
ColorFlagArgs ==
  {0, LP_COLOR_FLAG_CLEAR, LP_COLOR_FLAG_COPY,
   BitOr(LP_COLOR_FLAG_CLEAR, LP_COLOR_FLAG_COPY)}

\* the caller builds a color with LP_COLOR from two brightness levels and flags
Eval_LP_COLOR(green, red, flags) ==
  /\ last' = [Log("LP_COLOR", TRUE, LP_COLOR(green, red, flags), <<>>)
              EXCEPT !.arg = <<green, red, flags>>]
  /\ UNCHANGED <<midi_in, midi_out, current_buff, nonblocking, opened,
                 dev_display, inq, event>>

NextCodec ==
  \/ \E row \in 0 .. (LP_ROWS - 1), col \in 0 .. (LP_COLS - 1) : Eval_LP_KEY(row, col)
  \/ \E green \in LP_BRIGHTNESS_OFF .. LP_BRIGHTNESS_FULL,
        red \in LP_BRIGHTNESS_OFF .. LP_BRIGHTNESS_FULL,
        flags \in ColorFlagArgs : Eval_LP_COLOR(green, red, flags)

SpecCodec == InitZeroed /\ [][NextCodec]_vars

(***************************************************************************)
(* Properties                                                              *)
(***************************************************************************)
\* the transport calls of the last library call, by kind
CallsOf(fn) == SelectSeq(last.calls, LAMBDA c : c.fn = fn)

\* the last call was op, made on the session (lp not NULL)
Did(op) == last.op = op /\ last.lp

\* the roles a buffer-control byte v = flags + 0x20 assigns
DisplayOf(v) == Bit(v - 32, 0)
UpdateOf(v)  == Bit(v - 32, 2)
FlashOf(v)   == Bit(v - 32, 3)
CopyOf(v)    == Bit(v - 32, 4)

\* C1: once a session is opened, through any calls other than
\* set_buffer_flags, current_buff is 0 or 1 and is the buffer the device
\* displays.
C1_CurrentBuffIsDisplayed ==
  opened => current_buff \in {0, 1} /\ current_buff = dev_display

\* C2: a swap_buffers that follows a swap_buffers, the transport taking both
\* writes whole, puts current_buff back to what it was before the first, and
\* the two buffer-control messages have DISPLAY and UPDATE exchanged.
C2_SwapTwiceRestores ==
  [][ ( /\ Did("swap_buffers") /\ last.opened0
        /\ last.calls # <<>> /\ last.calls[1].res = 3 /\ last.ret = LP_OK
        /\ last'.op = "swap_buffers" /\ last'.lp /\ last' # last
        /\ last'.calls # <<>> /\ last'.calls[1].res = 3 /\ last'.ret = LP_OK )
      => ( /\ current_buff' = last.cb0
           /\ Len(SelectSeq(last.calls, LAMBDA c : c.fn = "write")) = 1
           /\ Len(SelectSeq(last'.calls, LAMBDA c : c.fn = "write")) = 1
           /\ DisplayOf(last'.calls[1].data[3]) = UpdateOf(last.calls[1].data[3])
           /\ UpdateOf(last'.calls[1].data[3]) = DisplayOf(last.calls[1].data[3])
           /\ DisplayOf(last'.calls[1].data[3]) # DisplayOf(last.calls[1].data[3]) )
    ]_vars

\* C3: a swap_buffers on an opened session turns current_buff 0 into 1 and 1
\* into 0 and writes one message [0xB0,0,v] with DISPLAY the new
\* current_buff, UPDATE the old one, COPY set and FLASH clear.
C3_SwapTogglesAndAnnounces ==
  (Did("swap_buffers") /\ last.opened0) =>
    /\ last.cb0 \in {0, 1}
    /\ current_buff = 1 - last.cb0
    /\ Len(CallsOf("write")) = 1
    /\ LET m == CallsOf("write")[1].data
       IN /\ Len(m) = 3 /\ m[1] = 176 /\ m[2] = 0
          /\ DisplayOf(m[3]) = current_buff
          /\ UpdateOf(m[3]) = last.cb0
          /\ CopyOf(m[3]) = 1
          /\ FlashOf(m[3]) = 0

\* C4: after a successful open current_buff is 0.
C4_OpenZeroesCurrentBuff ==
  (Did("open") /\ last.ret = LP_OK) => current_buff = 0

\* C5: reset, set_note, set_grid, set_buffer_flags, check_event,
\* enable_flashing and disable_flashing change neither current_buff nor the
\* opened status nor the handles, whatever they return.
FrameOps == {"reset", "set_note", "set_grid", "set_buffer_flags", "check_event",
             "enable_flashing", "disable_flashing"}
C5_OnlySwapChangesCurrentBuff ==
  [][ last'.op \in FrameOps =>
        UNCHANGED <<current_buff, opened, midi_in, midi_out>> ]_vars
C5_Witness ==
  /\ Did("reset") /\ last.opened0 /\ last.ret = LP_ERROR_MIDI_WRITE
  /\ current_buff = 1 /\ opened

\* C6: when the write of a writing operation on an opened session is not
\* taken whole (an error, or a count other than 3, 192 for set_grid), the
\* operation returns LP_ERROR_MIDI_WRITE after that one write, without a
\* drain, and current_buff is what it was.
WritingOps == {"reset", "set_note", "set_grid", "set_buffer_flags",
               "enable_flashing", "disable_flashing"}
C6_ShortWriteFails ==
  (last.op \in WritingOps /\ last.lp /\ last.opened0 /\ last.calls # <<>>) =>
    LET wr == last.calls[1]
    IN /\ wr.fn = "write"
       /\ Len(wr.data) = (IF last.op = "set_grid" THEN 192 ELSE 3)
       /\ wr.res # Len(wr.data) =>
            /\ last.ret = LP_ERROR_MIDI_WRITE
            /\ Len(last.calls) = 1
            /\ current_buff = last.cb0
C6_Witness ==
  /\ Did("set_grid") /\ last.opened0 /\ last.calls # <<>>
  /\ last.calls[1].res = 191
  /\ last.ret = LP_ERROR_MIDI_WRITE

\* C7: close on a session that is not opened (never opened, or closed
\* already) returns LP_OK and releases nothing; a close that succeeds on an
\* opened session releases each direction once.
C7_CloseIdempotent ==
  /\ (Did("close") /\ ~last.opened0) => (last.ret = LP_OK /\ last.calls = <<>>)
  /\ (Did("close") /\ last.opened0 /\ last.ret = LP_OK) =>
        /\ Len(SelectSeq(last.calls, LAMBDA c : c.dir = "in")) = 1
        /\ Len(SelectSeq(last.calls, LAMBDA c : c.dir = "out")) = 1

\* C8: when a release fails during close on an opened session, close returns
\* LP_ERROR_MIDI_CLOSE and has attempted the release of both directions.
C8_CloseReleasesBoth ==
  (Did("close") /\ last.opened0 /\ \E i \in 1 .. Len(last.calls) : last.calls[i].res < 0) =>
    /\ last.ret = LP_ERROR_MIDI_CLOSE
    /\ \E i \in 1 .. Len(last.calls) : last.calls[i].dir = "in"
    /\ \E i \in 1 .. Len(last.calls) : last.calls[i].dir = "out"

\* C9: an operation on a session that is not opened returns an error without
\* a transport call and without changing current_buff.
SessionOps == {"reset", "set_note", "set_grid", "set_buffer_flags", "swap_buffers",
               "check_event", "enable_flashing", "disable_flashing"}
C9_NoTransportUseWhenClosed ==
  (last.op \in SessionOps /\ last.lp /\ ~last.opened0) =>
    /\ last.ret < 0
    /\ last.calls = <<>>
    /\ current_buff = last.cb0

\* C10: check_event returns 1 exactly when the read delivered 3 bytes whose
\* first is 0x90 or 0xB0, the caller's event then being of the kind the
\* message names; after 3 bytes with another first byte it returns 0 and
\* the caller's event is untouched.
C10_EventOnlyForKnownStatus ==
  [][ ( last'.op = "check_event" /\ last'.lp /\ last'.opened0 /\ last'.hasEvent
        /\ last'.calls # <<>> /\ last'.calls[1].h = "live" ) =>
      LET rd == last'.calls[1]
          known == rd.res = 3 /\ rd.data[1] \in {144, 176}
      IN /\ (last'.ret = 1) <=> known
         /\ known =>
              event'.type = (IF rd.data[1] = 144
                             THEN (IF rd.data[3] > 0 THEN LP_EVENT_PRESSED
                                   ELSE LP_EVENT_RELEASED)
                             ELSE (IF rd.data[3] > 0 THEN LP_EVENT_AUTOMAP_PRESSED
                                   ELSE LP_EVENT_AUTOMAP_RELEASED))
         /\ (rd.res = 3 /\ ~known) => (last'.ret = 0 /\ event' = event)
    ]_vars

C12_BlockingNeverReturnsZero ==
  ( /\ Did("check_event") /\ last.opened0 /\ ~nonblocking
    /\ last.calls # <<>> /\ last.calls[1].h = "live" )
  => (last.ret = 1 \/ last.ret < 0)

\* C15: a writing operation that returns LP_OK has made one write, taken
\* whole, of its 3 (192) bytes and then one drain; a drain that fails makes
\* it return LP_ERROR_MIDI_DRAIN.
AllWritingOps == WritingOps \cup {"swap_buffers"}
C15_OneWriteThenOneDrain ==
  (last.op \in AllWritingOps /\ last.lp /\ last.calls # <<>>) =>
    /\ last.ret = LP_OK =>
         /\ Len(last.calls) = 2
         /\ last.calls[1].fn = "write"
         /\ Len(last.calls[1].data) = (IF last.op = "set_grid" THEN 192 ELSE 3)
         /\ last.calls[1].res = Len(last.calls[1].data)
         /\ last.calls[2].fn = "drain"
         /\ last.calls[2].res >= 0
    /\ (Len(last.calls) = 2 /\ last.calls[2].res < 0) => last.ret = LP_ERROR_MIDI_DRAIN
    /\ Len(CallsOf("write")) = 1
    /\ Len(CallsOf("drain")) <= 1
C15_Witness ==
  /\ Did("swap_buffers") /\ last.opened0 /\ last.ret = LP_OK
  /\ Len(last.calls) = 2 /\ last.calls[2].fn = "drain"

\* the flags DISPLAY_1 | UPDATE_0 | COPY
FlagsDisplay1Update0Copy ==
  BitOr(BitOr(LP_DOUBLE_BUFFERING_DISPLAY_1, LP_DOUBLE_BUFFERING_UPDATE_0),
        LP_DOUBLE_BUFFERING_COPY)

\* C16 as stated: set_buffer_flags with DISPLAY_1|UPDATE_0|COPY writes
\* [0xB0,0x00,0x25].
C16_FlagsByteIs0x25 ==
  ( /\ Did("set_buffer_flags") /\ last.opened0 /\ last.calls # <<>>
    /\ last.arg = <<FlagsDisplay1Update0Copy>> )
  => last.calls[1].data = <<176, 0, 37>>

\* C16 as amended: set_buffer_flags writes, once, [0xB0,0x00,flags + 0x20];
\* with DISPLAY_1|UPDATE_0|COPY (0x11) that is [0xB0,0x00,0x31].
C16_FlagsByteIsFlagsPlus0x20 ==
  (Did("set_buffer_flags") /\ last.opened0 /\ last.calls # <<>>) =>
    /\ Len(CallsOf("write")) = 1
    /\ last.calls[1].fn = "write"
    /\ last.calls[1].data = <<176, 0, last.arg[1] + 32>>
    /\ last.arg = <<FlagsDisplay1Update0Copy>> => last.calls[1].data = <<176, 0, 49>>
C16_Witness ==
  /\ Did("set_buffer_flags") /\ last.opened0 /\ last.calls # <<>>
  /\ last.arg = <<FlagsDisplay1Update0Copy>>
  /\ last.calls[1].res = 3
  /\ last.calls[1].data = <<176, 0, 49>>

\* C17: set_note on an opened session writes, once, the 3 bytes
\* [state, key, color] of its note and, the transport taking the write and
\* the drain, returns LP_OK; set_note(ON, LP_KEY(0,0), RED_FULL) writes
\* [0x90,0x00,0x03].
C17_SetNoteBytes ==
  (Did("set_note") /\ last.opened0 /\ last.calls # <<>>) =>
    /\ Len(CallsOf("write")) = 1
    /\ last.calls[1].fn = "write"
    /\ last.calls[1].data = last.arg
    /\ last.arg = <<LP_NOTE_ON, LP_KEY(0, 0), LP_COLOR_RED_FULL>> =>
         last.calls[1].data = <<144, 0, 3>>
    /\ last.calls[1].res = 3 => Len(last.calls) = 2
    /\ (Len(last.calls) = 2 /\ last.calls[2].res >= 0) => last.ret = LP_OK
C17_Witness ==
  /\ Did("set_note") /\ last.opened0 /\ last.ret = LP_OK
  /\ last.calls # <<>> /\ last.calls[1].data = <<144, 0, 3>>
  /\ last.calls[1].res = 3

\* C18: set_grid on an opened session makes one write of 192 bytes in which
\* the bytes at offsets 3*(i*8+j) .. 3*(i*8+j)+2 are state, key and color of
\* entry i*8+j of the array, for every i and j in 0..7.
C18_GridRowMajor ==
  (Did("set_grid") /\ last.opened0 /\ last.calls # <<>>) =>
    /\ Len(last.arg) = 64
    /\ Len(CallsOf("write")) = 1
    /\ last.calls[1].fn = "write"
    /\ Len(last.calls[1].data) = 192
    /\ \A i \in 0 .. 7 : \A j \in 0 .. 7 :
         LET off == 3 * (i * 8 + j)
             d   == last.calls[1].data
         IN <<d[off + 1], d[off + 2], d[off + 3]>> = last.arg[i * 8 + j + 1]
C18_Witness ==
  /\ Did("set_grid") /\ last.opened0 /\ last.ret = LP_OK
  /\ last.calls # <<>> /\ last.calls[1].res = 192
  /\ last.arg[8 + 2 + 1] = <<LP_NOTE_ON, LP_KEY(1, 2), LP_COLOR_GREEN_FULL>>

\* C13: after check_event read [0x90, LP_KEY(row,col), velocity] with row and
\* col in 0..7, the caller's event has note_y = row and note_x = col and is
\* PRESSED for a velocity above 0, RELEASED for 0.
C13_GridKeyRoundTrip ==
  ( /\ Did("check_event") /\ last.hasEvent /\ last.calls # <<>>
    /\ last.calls[1].res = 3 /\ last.calls[1].data[1] = 144 )
  => \A row \in 0 .. 7 : \A col \in 0 .. 7 :
       last.calls[1].data[2] = LP_KEY(row, col) =>
         event = [type   |-> IF last.calls[1].data[3] > 0 THEN LP_EVENT_PRESSED
                             ELSE LP_EVENT_RELEASED,
                  note_x |-> col,
                  note_y |-> row]
C13_Witness ==
  /\ Did("check_event") /\ last.hasEvent /\ last.calls # <<>>
  /\ last.calls[1].data = <<144, LP_KEY(5, 7), 127>>
  /\ event = [type |-> LP_EVENT_PRESSED, note_x |-> 7, note_y |-> 5]

\* C14: an event check_event produced from [0x90, note, velocity] has note_x
\* and note_y in 0..7, so that note_y * 8 + note_x is an index of the 64 cells;
\* one produced from [0xB0, note, velocity] has note_y = 0 and
\* note_x = note - 0x68.
C14_EventCoordinatesValid ==
  ( /\ Did("check_event") /\ last.hasEvent /\ last.calls # <<>>
    /\ last.calls[1].res = 3 )
  => /\ (last.calls[1].data[1] = 144 /\ last.calls[1].data[2] \in 0 .. 127) =>
          /\ event.note_x \in 0 .. 7
          /\ event.note_y \in 0 .. 7
          /\ event.note_y * 8 + event.note_x \in 0 .. 63
     /\ last.calls[1].data[1] = 176 =>
          /\ event.note_y = 0
          /\ event.note_x = last.calls[1].data[2] - 104

\* C19 as stated: for all brightness levels and color flags the color
\* 16*green + red + flags gives green back as color / 16 and red as
\* color % 16.
C19_RedIsColorMod16 ==
  last.op = "LP_COLOR" =>
    /\ last.ret \div 16 = last.arg[1]
    /\ last.ret % 16 = last.arg[2]

\* C19 as amended: the flags (bits 2 and 3) share no bit with red (bits 0
\* and 1) or green (bits 4 and 5): the color gives green back as color / 16,
\* red as color % 4 and the flags as the rest of color % 16; red is
\* color % 16 when no flag is set.
C19_FlagsApartFromBrightness ==
  last.op = "LP_COLOR" =>
    /\ last.ret \in 0 .. 255
    /\ last.ret \div 16 = last.arg[1]
    /\ last.ret % 4 = last.arg[2]
    /\ (last.ret % 16) - (last.ret % 4) = last.arg[3]
    /\ last.arg[3] = 0 => last.ret % 16 = last.arg[2]
C19_Witness ==
  /\ last.op = "LP_COLOR"
  /\ last.arg = <<3, 3, BitOr(LP_COLOR_FLAG_CLEAR, LP_COLOR_FLAG_COPY)>>
  /\ last.ret = 63

\* C20: for row and col in 0..7, LP_KEY(row, col) is in 0..127 and no other
\* pair of 0..7 x 0..7 has the same key.
C20_KeyInRangeInjective ==
  last.op = "LP_KEY" =>
    /\ last.ret \in 0 .. 127
    /\ \A row \in 0 .. 7 : \A col \in 0 .. 7 :
         LP_KEY(row, col) = last.ret => <<row, col>> = last.arg
C20_Witness ==
  /\ last.op = "LP_KEY"
  /\ last.arg = <<7, 7>>
  /\ last.ret = 119

\* C21: without flags, LP_COLOR(green, red, 0) gives green back as
\* color / 16 and red as color % 16, for all brightness levels 0..3.
C21_ColorRoundTripNoFlags ==
  (last.op = "LP_COLOR" /\ last.arg[3] = 0) =>
    <<last.ret \div 16, last.ret % 16>> = <<last.arg[1], last.arg[2]>>
C21_Witness ==
  /\ last.op = "LP_COLOR"
  /\ last.arg = <<LP_BRIGHTNESS_FULL, LP_BRIGHTNESS_FULL, 0>>
  /\ last.ret = 51

\* C22: a swap_buffers that returns an error leaves current_buff as it was.
C22_FailedSwapKeepsCurrentBuff ==
  (Did("swap_buffers") /\ last.opened0 /\ last.calls # <<>> /\ last.ret < 0) =>
    current_buff = last.cb0

\* C23: the reads of check_event keep to the 3-byte messages of the input:
\* the bytes a read took and did not report are none (what is left to read
\* is a whole number of messages), and a read reported as an event is one of
\* the messages the device sent.
C23_InputStaysAligned ==
  ( /\ Did("check_event") /\ last.opened0 /\ last.calls # <<>>
    /\ last.calls[1].h = "live" )
  => /\ Len(inq) % 3 = 0
     /\ last.ret = 1 => last.calls[1].data \in InMsgs

====
